---- MODULE Spec2Model ----
(***************************************************************************)
(* Character-aware embedding of models/transformer_chrawr.py:              *)
(* chrawr_embedding, embedding_mask, highway and conv_emb.                 *)
(*                                                                         *)
(* A tensor [batch, time, channel] is a sequence of sequences of sequences *)
(* of integers (indices start at 1 here, at 0 in the source).  Floating    *)
(* point values are held to the nearest integer, so tanh(x) is x clamped   *)
(* to -1..1 and sigmoid(x) is 1 for x >= 1 and 0 otherwise.                *)
(* One forward pass is run statement by statement (pc); a second pass on   *)
(* the same input, weights and hparams follows the first.                  *)
(***************************************************************************)
EXTENDS Integers, Sequences, FiniteSets, TLC

\* ---------------------------------------------------------------- bounds
MaxLen == 3
MaxPool == 3
MaxHighway == 2

\* hparams.reduced_input_size and hparams.hidden_size, at model scale
ReducedInputSize == 2
HiddenSize == 3
\* default of highway's bias argument
HighwayBias == -2

\* a name not bound to a tensor yet
Unset == << >>

\* ------------------------------------------------------------ arithmetic
Abs(x) == IF x < 0 THEN -x ELSE x

Max(a, b) == IF a >= b THEN a ELSE b

RECURSIVE SumSeq(_)
SumSeq(s) == IF s = <<>> THEN 0 ELSE s[1] + SumSeq(Tail(s))

\* ---------------------------------------------------------------- shapes
Channels(x) == Len(x[1][1])

\* ------------------------------------------------------- embedding_mask
\* tf.reduce_sum(tf.abs(emb), axis=-1) at one position
AbsSumNoAbs(v) == SumSeq(v)
AbsSum(v) == SumSeq([c \in 1..Len(v) |-> Abs(v[c])])

\* tf.expand_dims(tf.to_float(tf.not_equal(emb_sum, 0.0)), -1)
embedding_mask(emb) ==
    [b \in 1..Len(emb) |->
        [t \in 1..Len(emb[b]) |-> << IF AbsSum(emb[b][t]) # 0 THEN 1 ELSE 0 >>]]

\* emb * mask, the mask broadcast over the channels
MulMask(x, m) ==
    [b \in 1..Len(x) |->
        [t \in 1..Len(x[b]) |->
            [c \in 1..Len(x[b][t]) |-> x[b][t][c] * m[b][t][1]]]]

\* ----------------------------------------------------------- activations
Tanh(x) == IF x > 1 THEN 1 ELSE IF x < -1 THEN -1 ELSE x
Relu(x) == Max(x, 0)
Sigmoid(x) == IF x >= 1 THEN 1 ELSE 0

Activate(act, x) ==
    CASE act = "tanh" -> Tanh(x)
      [] act = "relu" -> Relu(x)
      [] act = "sigmoid" -> Sigmoid(x)
      [] OTHER -> x

\* ------------------------------------------------------- tf.layers.conv1d
\* The kernel entry for tap j, input channel i and output channel o, and the
\* bias, of a layer whose variables hold the values wt.
KernelAt(wt, j, i, o) == IF (j + i + o) % 2 = 0 THEN wt.w ELSE wt.v

\* 'same' padding, stride 1: the input is zero outside 1..Time
PadLeft(k) == (k - 1) \div 2
InputAt(row, t, i) == IF t \in 1..Len(row) THEN row[t][i] ELSE 0

ConvSum(row, t, o, k, wt) ==
    LET cin == Len(row[1])
    IN  SumSeq([n \in 1..(k * cin) |->
            LET j == ((n - 1) \div cin) + 1
                i == ((n - 1) % cin) + 1
            IN  InputAt(row, t + j - 1 - PadLeft(k), i) * KernelAt(wt, j, i, o)])

conv1d(x, filters, k, act, wt, bias) ==
    [b \in 1..Len(x) |->
        [t \in 1..Len(x[b]) |->
            [o \in 1..filters |-> Activate(act, ConvSum(x[b], t, o, k, wt) + bias)]]]

\* -------------------------------------------------- tf.layers.max_pooling1d
\* 'same' padding, window p and stride p: ceil(L / p) windows, the padding
\* split with the smaller half in front; padded cells take no part in the max.
PoolOutLenValid(L, p) == L \div p
PoolOutLen(L, p) == (L + p - 1) \div p
PoolPadLeft(L, p) == Max((PoolOutLen(L, p) - 1) * p + p - L, 0) \div 2
PoolWindow(L, p, o) ==
    { t \in 1..L : /\ t >= (o - 1) * p - PoolPadLeft(L, p) + 1
                   /\ t <= (o - 1) * p - PoolPadLeft(L, p) + p }

RECURSIVE MaxOver(_, _, _)
MaxOver(row, S, c) ==
    LET t == CHOOSE u \in S : TRUE
    IN  IF Cardinality(S) = 1 THEN row[t][c]
        ELSE Max(row[t][c], MaxOver(row, S \ {t}, c))

\* the window's first cell instead of its maximum
FirstOver(row, S, c) == row[CHOOSE t \in S : \A u \in S : t <= u][c]

max_pooling1dFirst(x, p) ==
    [b \in 1..Len(x) |->
        [o \in 1..PoolOutLen(Len(x[b]), p) |->
            [c \in 1..Len(x[b][1]) |->
                FirstOver(x[b], PoolWindow(Len(x[b]), p, o), c)]]]
max_pooling1d(x, p) ==
    [b \in 1..Len(x) |->
        [o \in 1..PoolOutLen(Len(x[b]), p) |->
            [c \in 1..Len(x[b][1]) |->
                MaxOver(x[b], PoolWindow(Len(x[b]), p, o), c)]]]

\* ------------------------------------------------------------- tf.concat
RECURSIVE FlatCat(_)
FlatCat(ss) == IF ss = <<>> THEN <<>> ELSE ss[1] \o FlatCat(Tail(ss))

\* tf.concat(layers, 2)
ConcatLast(layers) == layers[Len(layers)]
Concat(layers) ==
    [b \in 1..Len(layers[1]) |->
        [t \in 1..Len(layers[1][b]) |->
            FlatCat([n \in 1..Len(layers) |-> layers[n][b][t]])]]

\* ------------------------------------- common_attention.add_timing_signal_1d
\* sin and cos of the position (0, 1, 2, ...), rounded; the first half of the
\* channels carries the sine, the second half the cosine.
SinQ == << 0, 1, 1, 0, -1, -1 >>
CosQ == << 1, 1, 0, -1, -1, 0 >>
TimingSignal(t, c, channels) ==
    LET half == channels \div 2
    IN  IF c <= half THEN SinQ[t]
        ELSE IF c <= 2 * half THEN CosQ[t]
        ELSE 0

add_timing_signal_1d(x) ==
    [b \in 1..Len(x) |->
        [t \in 1..Len(x[b]) |->
            [c \in 1..Len(x[b][t]) |->
                x[b][t][c] + TimingSignal(t, c, Len(x[b][t]))]]]

\* ---------------------------------------------------------- tf.nn.dropout
\* The random keep mask of one call is one of two complementary patterns.
DropPatterns == {"even", "odd"}
Keeps(pat, b, t, c) ==
    IF pat = "even"
    THEN (IF (b + t + c) % 2 = 0 THEN 1 ELSE 0)
    ELSE (IF (b + t + c) % 2 = 0 THEN 0 ELSE 1)

\* rate in percent; keep_prob = 1 - rate.  keep_prob = 1 returns x itself.
DropScale(rate) == 100 \div (100 - rate)
dropoutAlways(x, rate, pat) ==
    [b \in 1..Len(x) |->
        [t \in 1..Len(x[b]) |->
            [c \in 1..Len(x[b][t]) |->
                x[b][t][c] * DropScale(rate) * Keeps(pat, b, t, c)]]]
dropout(x, rate, pat) ==
    IF rate = 0 THEN x
    ELSE [b \in 1..Len(x) |->
            [t \in 1..Len(x[b]) |->
                [c \in 1..Len(x[b][t]) |->
                    x[b][t][c] * DropScale(rate) * Keeps(pat, b, t, c)]]]

\* the pattern a call drew, when it drew one
Drawn(rate, pat) == IF rate = 0 THEN "none" ELSE pat

\* ------------------------------------------------------------------ inputs
\* One position's feature vector: the all-zero vector is padding.
ZeroVec == << 0, 0 >>
Vecs == { ZeroVec, << 1, -1 >> }
FullVec == << 0, 2 >>

\* Batch element 1 is any row over Vecs, batch element 2 has no padding.
Inputs ==
    UNION { { << r, [t \in 1..L |-> FullVec] >> : r \in [1..L -> Vecs] } : L \in 1..MaxLen }

\* (chr_kernels, chr_kernel_features); the last two differ in length
KernelConfigs ==
    { << << 1 >>, << 2 >> >>,
      << << 1, 2, 3 >>, << 1, 2, 1 >> >>,
      << << 1, 2, 3 >>, << 2, 1 >> >>,
      << << 1 >>, << 1, 1 >> >> }

\* (chr_nonlinearity, chr_dropout_rate in percent, chr_pos_enc): every pair of
\* values of two of the three options occurs
Flavours ==
    { << "tanh", 0, FALSE >>, << "relu", 0, TRUE >>,
      << "tanh", 50, TRUE >>, << "relu", 50, FALSE >> }

HParams ==
    { [ num_highway_layers |-> n,
        reduced_input_size |-> ReducedInputSize,
        hidden_size |-> HiddenSize,
        chr_kernels |-> kc[1],
        chr_kernel_features |-> kc[2],
        chr_maxpool_size |-> p,
        chr_nonlinearity |-> fl[1],
        chr_dropout_rate |-> fl[2],
        chr_pos_enc |-> fl[3] ] :
      n \in 0..MaxHighway, kc \in KernelConfigs, p \in 1..MaxPool,
      fl \in Flavours }

\* The values held by the layers' variables (kernel entries w and v, bias b).
Weights ==
    { [w |-> 0, v |-> 0, b |-> 0],
      [w |-> 1, v |-> -1, b |-> 1],
      [w |-> -1, v |-> 1, b |-> -1] }

\* ------------------------------------------------------------------- state
VARIABLES
    hparams,        \* the hyperparameter bundle
    weights,        \* the values of the layers' variables
    emb0,           \* the tensor chrawr_embedding is called with
    run,            \* 1 or 2: which forward pass
    prev,           \* what the first pass returned, and what its first dropout drew
    pc,             \* the statement about to run
    err,            \* the exception raised, if any
    ops,            \* the operations built so far in this pass
    emb,            \* chrawr_embedding: emb
    emb_mask,       \* chrawr_embedding: emb_mask
    emb_mask_in,    \* chrawr_embedding: emb_mask_in
    encoder_input,  \* chrawr_embedding: encoder_input
    conv_inputs,    \* conv_emb: inputs
    convs,          \* conv_emb: conv of each branch, after the mask
    layers,         \* conv_emb: layers
    hw_inputs,      \* highway: inputs
    output,         \* highway: output
    idx,            \* highway: idx
    hw_trace,       \* highway: what each layer received and produced
    drop1,          \* the pattern the first dropout drew
    drop2           \* the pattern the second dropout drew

cfg == << hparams, weights, emb0 >>
passes == << run, prev >>
conv_locals == << conv_inputs, convs, layers >>
hw_locals == << hw_inputs, output, idx, hw_trace >>
draws == << drop1, drop2 >>
vars == << hparams, weights, emb0, run, prev, pc, err, ops, emb, emb_mask,
           emb_mask_in, encoder_input, conv_inputs, convs, layers,
           hw_inputs, output, idx, hw_trace, drop1, drop2 >>

\* the locals of a pass that has not started
Fresh ==
    /\ pc = "mask"
    /\ err = "none"
    /\ ops = << >>
    /\ emb = emb0
    /\ emb_mask = Unset
    /\ emb_mask_in = Unset
    /\ encoder_input = Unset
    /\ conv_inputs = Unset
    /\ convs = << >>
    /\ layers = << >>
    /\ hw_inputs = Unset
    /\ output = Unset
    /\ idx = 0
    /\ hw_trace = << >>
    /\ drop1 = "none"
    /\ drop2 = "none"

Init ==
    /\ hparams \in HParams
    /\ weights \in Weights
    /\ emb0 \in Inputs
    /\ run = 1
    /\ prev = [emb |-> Unset, drop1 |-> "none"]
    /\ Fresh

\* --------------------------------------------------------- chrawr_embedding
\* emb_mask = embedding_mask(emb)
InitialMask ==
    /\ pc = "mask"
    /\ emb_mask' = embedding_mask(emb)
    /\ ops' = Append(ops, "emb_mask")
    /\ pc' = "rescale"
    /\ UNCHANGED << cfg, passes, err, emb, emb_mask_in, encoder_input,
                    conv_locals, hw_locals, draws >>

\* emb = tf.layers.conv1d(emb, hparams.reduced_input_size, 1, 1, 'same')
Rescale ==
    /\ pc = "rescale"
    /\ emb' = conv1d(emb, hparams.reduced_input_size, 1, "linear", weights, weights.b)
    /\ ops' = Append(ops, "rescaled_embedding")
    /\ pc' = "pos_enc"
    /\ UNCHANGED << cfg, passes, err, emb_mask, emb_mask_in, encoder_input,
                    conv_locals, hw_locals, draws >>

\* if hparams.chr_pos_enc: emb = common_attention.add_timing_signal_1d(emb)
PositionalSignal ==
    /\ pc = "pos_enc"
    /\ IF hparams.chr_pos_enc
       THEN /\ emb' = add_timing_signal_1d(emb)
            /\ ops' = Append(ops, "timing_signal")
       ELSE UNCHANGED << emb, ops >>
    /\ pc' = "remask"
    /\ UNCHANGED << cfg, passes, err, emb_mask, emb_mask_in, encoder_input,
                    conv_locals, hw_locals, draws >>

\* emb = emb * emb_mask
MaskRescaledSkipped ==
    /\ pc = "remask"
    /\ ops' = Append(ops, "mul")
    /\ pc' = "conv_emb"
    /\ UNCHANGED << cfg, passes, err, emb, emb_mask, emb_mask_in, encoder_input,
                    conv_locals, hw_locals, draws >>
MaskRescaled ==
    /\ pc = "remask"
    /\ emb' = MulMask(emb, emb_mask)
    /\ ops' = Append(ops, "mul")
    /\ pc' = "conv_emb"
    /\ UNCHANGED << cfg, passes, err, emb_mask, emb_mask_in, encoder_input,
                    conv_locals, hw_locals, draws >>

\* ------------------------------------------------------------------ conv_emb
\* emb = conv_emb(emb, hparams, emb_mask): the call and the assertion
ConvEmbEnterUnchecked ==
    /\ pc = "conv_emb"
    /\ conv_inputs' = emb
    /\ pc' = "branch"
    /\ UNCHANGED << cfg, passes, err, ops, emb, emb_mask, emb_mask_in,
                    encoder_input, convs, layers, hw_locals, draws >>
ConvEmbEnter ==
    /\ pc = "conv_emb"
    /\ conv_inputs' = emb
    /\ IF Len(hparams.chr_kernels) = Len(hparams.chr_kernel_features)
       THEN /\ pc' = "branch"
            /\ err' = err
       ELSE /\ pc' = "error"
            /\ err' = "AssertionError"
    /\ UNCHANGED << cfg, passes, ops, emb, emb_mask, emb_mask_in,
                    encoder_input, convs, layers, hw_locals, draws >>

\* zip(hparams.chr_kernels, hparams.chr_kernel_features) stops at the shorter
Min(a, b) == IF a <= b THEN a ELSE b
Branches == Min(Len(hparams.chr_kernels), Len(hparams.chr_kernel_features))

\* one turn of the loop: conv1d, the mask, max_pooling1d, layers.append
ConvBranch ==
    /\ pc = "branch"
    /\ Len(layers) < Branches
    /\ LET n == Len(layers) + 1
           conv == MulMask(conv1d(conv_inputs, hparams.chr_kernel_features[n],
                                  hparams.chr_kernels[n], hparams.chr_nonlinearity,
                                  weights, weights.b),
                           emb_mask)
           pool == max_pooling1d(conv, hparams.chr_maxpool_size)
       IN  /\ convs' = Append(convs, conv)
           /\ layers' = Append(layers, pool)
           /\ ops' = ops \o << "kernel", "mul", "kernel_pool" >>
    /\ UNCHANGED << cfg, passes, pc, err, emb, emb_mask, emb_mask_in,
                    encoder_input, conv_inputs, hw_locals, draws >>

\* the end of the loop, the concatenation and the return into emb
ConvEmbReturn ==
    /\ pc = "branch"
    /\ Len(layers) = Branches
    /\ IF Len(hparams.chr_kernels) > 1
       THEN /\ emb' = Concat(layers)
            /\ ops' = Append(ops, "concat")
       ELSE /\ emb' = layers[1]
            /\ ops' = ops
    /\ pc' = "mask_in"
    /\ UNCHANGED << cfg, passes, err, emb_mask, emb_mask_in, encoder_input,
                    conv_locals, hw_locals, draws >>

\* ------------------------------------------------- chrawr_embedding, continued
\* emb_mask_in = embedding_mask(emb)
PooledMask ==
    /\ pc = "mask_in"
    /\ emb_mask_in' = embedding_mask(emb)
    /\ ops' = Append(ops, "emb_mask_in")
    /\ pc' = "dropout1"
    /\ UNCHANGED << cfg, passes, err, emb, emb_mask, encoder_input,
                    conv_locals, hw_locals, draws >>

\* emb = tf.nn.dropout(emb, 1.0 - hparams.chr_dropout_rate)
FirstDropout ==
    /\ pc = "dropout1"
    /\ \E pat \in DropPatterns :
          /\ emb' = dropout(emb, hparams.chr_dropout_rate, pat)
          /\ drop1' = Drawn(hparams.chr_dropout_rate, pat)
    /\ ops' = Append(ops, "dropout")
    /\ pc' = "highway"
    /\ UNCHANGED << cfg, passes, err, emb_mask, emb_mask_in, encoder_input,
                    conv_locals, hw_locals, drop2 >>

\* ------------------------------------------------------------------- highway
\* emb = highway(emb, emb.get_shape()[-1], hparams): the call
HighwayEnter ==
    /\ pc = "highway"
    /\ hw_inputs' = emb
    /\ output' = Unset
    /\ idx' = 0
    /\ hw_trace' = << >>
    /\ pc' = "layer"
    /\ UNCHANGED << cfg, passes, err, ops, emb, emb_mask, emb_mask_in,
                    encoder_input, conv_locals, draws >>

\* t * g + (1. - t) * inputs
Gate(t, g, x) ==
    [b \in 1..Len(x) |->
        [u \in 1..Len(x[b]) |->
            [c \in 1..Len(x[b][u]) |->
                t[b][u][c] * g[b][u][c] + (1 - t[b][u][c]) * x[b][u][c]]]]

\* one layer applied to x
HighwayOf(x) ==
    LET size == Channels(emb)
        t == conv1d(x, size, 1, "sigmoid", weights, HighwayBias + weights.b)
        g == conv1d(x, size, 1, hparams.chr_nonlinearity, weights, weights.b)
    IN  Gate(t, g, x)

\* one turn of the loop: the layer reads inputs, and inputs = output
HighwayLayer ==
    /\ pc = "layer"
    /\ idx < hparams.num_highway_layers
    /\ output' = HighwayOf(hw_inputs)
    /\ hw_inputs' = output'
    /\ hw_trace' = Append(hw_trace, [received |-> hw_inputs, produced |-> output'])
    /\ idx' = idx + 1
    /\ ops' = ops \o << "highway_lin", "highway_gate" >>
    /\ UNCHANGED << cfg, passes, pc, err, emb, emb_mask, emb_mask_in,
                    encoder_input, conv_locals, draws >>

\* return output: output is unbound when the loop never ran
HighwayReturnInputs ==
    /\ pc = "layer"
    /\ idx = hparams.num_highway_layers
    /\ emb' = hw_inputs
    /\ pc' = "remask_hw"
    /\ UNCHANGED << cfg, passes, err, ops, emb_mask, emb_mask_in, encoder_input,
                    conv_locals, hw_locals, draws >>
HighwayReturn ==
    /\ pc = "layer"
    /\ idx = hparams.num_highway_layers
    /\ IF output = Unset
       THEN /\ pc' = "error"
            /\ err' = "UnboundLocalError"
            /\ emb' = emb
       ELSE /\ pc' = "remask_hw"
            /\ err' = err
            /\ emb' = output
    /\ UNCHANGED << cfg, passes, ops, emb_mask, emb_mask_in, encoder_input,
                    conv_locals, hw_locals, draws >>

\* ------------------------------------------------- chrawr_embedding, the end
\* emb = emb * emb_mask_in
MaskHighway ==
    /\ pc = "remask_hw"
    /\ emb' = MulMask(emb, emb_mask_in)
    /\ ops' = Append(ops, "mul")
    /\ pc' = "dropout2"
    /\ UNCHANGED << cfg, passes, err, emb_mask, emb_mask_in, encoder_input,
                    conv_locals, hw_locals, draws >>

\* encoder_input = tf.nn.dropout(emb, 1.0 - hparams.chr_dropout_rate)
SecondDropout ==
    /\ pc = "dropout2"
    /\ \E pat \in DropPatterns :
          /\ encoder_input' = dropout(emb, hparams.chr_dropout_rate, pat)
          /\ drop2' = Drawn(hparams.chr_dropout_rate, pat)
    /\ ops' = Append(ops, "dropout")
    /\ pc' = "restore"
    /\ UNCHANGED << cfg, passes, err, emb, emb_mask, emb_mask_in,
                    conv_locals, hw_locals, drop1 >>

\* emb = tf.layers.conv1d(emb, hparams.hidden_size, 1, 1, 'same')
RestoreFromEncoderInput ==
    /\ pc = "restore"
    /\ emb' = conv1d(encoder_input, hparams.hidden_size, 1, "linear", weights, weights.b)
    /\ ops' = Append(ops, "restored_embedding")
    /\ pc' = "remask_out"
    /\ UNCHANGED << cfg, passes, err, emb_mask, emb_mask_in, encoder_input,
                    conv_locals, hw_locals, draws >>
Restore ==
    /\ pc = "restore"
    /\ emb' = conv1d(emb, hparams.hidden_size, 1, "linear", weights, weights.b)
    /\ ops' = Append(ops, "restored_embedding")
    /\ pc' = "remask_out"
    /\ UNCHANGED << cfg, passes, err, emb_mask, emb_mask_in, encoder_input,
                    conv_locals, hw_locals, draws >>

\* emb = emb * emb_mask_in
MaskRestoredSkipped ==
    /\ pc = "remask_out"
    /\ ops' = Append(ops, "mul")
    /\ pc' = "return"
    /\ UNCHANGED << cfg, passes, err, emb, emb_mask, emb_mask_in, encoder_input,
                    conv_locals, hw_locals, draws >>
MaskRestored ==
    /\ pc = "remask_out"
    /\ emb' = MulMask(emb, emb_mask_in)
    /\ ops' = Append(ops, "mul")
    /\ pc' = "return"
    /\ UNCHANGED << cfg, passes, err, emb_mask, emb_mask_in, encoder_input,
                    conv_locals, hw_locals, draws >>

\* return emb
Return ==
    /\ pc = "return"
    /\ pc' = "done"
    /\ UNCHANGED << cfg, passes, err, ops, emb, emb_mask, emb_mask_in,
                    encoder_input, conv_locals, hw_locals, draws >>

\* encode is called again with the same inputs, variables and hparams
SecondPass ==
    /\ pc = "done"
    /\ run = 1
    /\ UNCHANGED cfg
    /\ run' = 2
    /\ prev' = [emb |-> emb, drop1 |-> drop1]
    /\ pc' = "mask"
    /\ err' = "none"
    /\ ops' = << >>
    /\ emb' = emb0
    /\ emb_mask' = Unset
    /\ emb_mask_in' = Unset
    /\ encoder_input' = Unset
    /\ conv_inputs' = Unset
    /\ convs' = << >>
    /\ layers' = << >>
    /\ hw_inputs' = Unset
    /\ output' = Unset
    /\ idx' = 0
    /\ hw_trace' = << >>
    /\ drop1' = "none"
    /\ drop2' = "none"

Next ==
    \/ InitialMask
    \/ Rescale
    \/ PositionalSignal
    \/ MaskRescaled
    \/ ConvEmbEnter
    \/ ConvBranch
    \/ ConvEmbReturn
    \/ PooledMask
    \/ FirstDropout
    \/ HighwayEnter
    \/ HighwayLayer
    \/ HighwayReturn
    \/ MaskHighway
    \/ SecondDropout
    \/ Restore
    \/ MaskRestored
    \/ Return
    \/ SecondPass

Spec == Init /\ [][Next]_vars

\* ===================================================================== claims
L0 == Len(emb0[1])
IsPadding(x, b, t) == \A c \in 1..Len(x[b][t]) : x[b][t][c] = 0
Window(o) == PoolWindow(L0, hparams.chr_maxpool_size, o)
Outs == 1..PoolOutLen(L0, hparams.chr_maxpool_size)
Mismatch == Len(hparams.chr_kernels) # Len(hparams.chr_kernel_features)
Range(s) == { s[n] : n \in 1..Len(s) }
AfterHighway == { "remask_hw", "dropout2", "restore", "remask_out", "return", "done" }
AfterConvEmb == { "mask_in", "dropout1", "highway", "layer" } \cup AfterHighway

\* the mask m is 1 exactly at the positions of x that are not all-zero
MaskOf(m, x) ==
    /\ Len(m) = Len(x)
    /\ \A b \in 1..Len(x) :
          /\ Len(m[b]) = Len(x[b])
          /\ \A t \in 1..Len(x[b]) :
                m[b][t] = (IF IsPadding(x, b, t) THEN << 0 >> ELSE << 1 >>)

\* C1: embedding_mask(emb)[b,t] is 1 iff emb[b,t,:] is not the all-zero
\* vector, and 0 otherwise, for the mask of the input and for the mask of
\* the pooled convolution output.
C1_MaskIffNonzero ==
    /\ pc = "rescale" => MaskOf(emb_mask, emb)
    /\ pc = "dropout1" => MaskOf(emb_mask_in, emb)

\* a position whose entries cancel is not padding, next to one that is
C1_Witness ==
    /\ pc = "rescale"
    /\ \E t \in 1..L0 : SumSeq(emb[1][t]) = 0 /\ emb_mask[1][t] = << 1 >>
    /\ \E t \in 1..L0 : emb_mask[1][t] = << 0 >>

\* C2 as stated: when the lengths differ, no stage of chrawr_embedding has
\* run at the moment the error is raised.
C2_NothingRanBeforeError == err = "AssertionError" => ops = << >>

\* C2 amended: when the lengths differ, conv_emb raises before any
\* convolution branch has run and never gets past its assertion; the
\* initial mask, the rescale projection, the positional signal (when
\* configured) and the masking of chrawr_embedding have run by then.
C2_ErrorBeforeAnyBranch ==
    /\ Mismatch => /\ "kernel" \notin Range(ops)
                   /\ layers = << >>
                   /\ pc \notin { "branch" } \cup AfterConvEmb
    /\ err = "AssertionError" =>
          /\ Mismatch
          /\ ops = (IF hparams.chr_pos_enc
                    THEN << "emb_mask", "rescaled_embedding", "timing_signal", "mul" >>
                    ELSE << "emb_mask", "rescaled_embedding", "mul" >>)

C2_Witness ==
    /\ err = "AssertionError"
    /\ hparams.chr_pos_enc
    /\ Len(hparams.chr_kernels) > Len(hparams.chr_kernel_features)

\* C3 as stated: emb_mask_in is 1 at every pooled position whose pooling
\* window contains a non-padding input position, whatever the weights and
\* the nonlinearity.
C3_NonPaddingWindowUnmasked ==
    pc = "dropout1" =>
        \A b \in 1..Len(emb0) : \A o \in Outs :
            (\E t \in Window(o) : ~IsPadding(emb0, b, t))
                => emb_mask_in[b][o] = << 1 >>

\* C3 amended: emb_mask_in is 1 at every pooled position whose pooling
\* window contains a non-padding input position at which some branch's
\* activation is positive in some channel.
C3_PositiveActivationUnmasked ==
    pc = "dropout1" =>
        \A b \in 1..Len(emb0) : \A o \in Outs :
            (\E t \in Window(o) : \E n \in 1..Len(convs) :
                /\ ~IsPadding(emb0, b, t)
                /\ \E c \in 1..Len(convs[n][b][t]) : convs[n][b][t][c] > 0)
                => emb_mask_in[b][o] = << 1 >>

\* a positive activation that is not in the first cell of its window, and
\* the first cell's activations are all zero
C3_Witness ==
    /\ pc = "dropout1"
    /\ \E o \in Outs : \E t, u \in Window(o) :
          /\ u < t
          /\ \A n \in 1..Len(convs) : IsPadding(convs[n], 1, u)
          /\ \E n \in 1..Len(convs) : \E c \in 1..Len(convs[n][1][t]) :
                convs[n][1][t][c] > 0
          /\ emb_mask_in[1][o] = << 1 >>

\* C4: the returned tensor is the all-zero vector at every pooled position
\* whose pooling window covers only padding positions of the input.
C4_PaddingWindowsReturnZero ==
    pc = "done" =>
        \A b \in 1..Len(emb) : \A o \in 1..Len(emb[b]) :
            (\A t \in Window(o) : IsPadding(emb0, b, t)) => IsPadding(emb, b, o)

\* a window of padding next to a populated one, with a bias to leak
C4_Witness ==
    /\ pc = "done"
    /\ weights.b # 0
    /\ \E o \in 1..Len(emb[1]) : \A t \in Window(o) : IsPadding(emb0, 1, t)
    /\ \E o \in 1..Len(emb[1]) : ~IsPadding(emb, 1, o)

\* ceil(L / p), not computed the way the pooling computes it
CeilDiv(L, p) == CHOOSE n \in 0..L : n * p >= L /\ (n - 1) * p < L

HasShape(x, batch, time, channels) ==
    /\ Len(x) = batch
    /\ \A b \in 1..Len(x) :
          /\ Len(x[b]) = time
          /\ \A t \in 1..Len(x[b]) : Len(x[b][t]) = channels

\* C5: for an input of shape (B, L, C) and pooling size p, every branch's
\* pooled output has ceil(L / p) time steps, the highway stack and the
\* restore projection keep that, and the returned tensor has shape
\* (B, ceil(L / p), hidden_size).
C5_ReturnedShape ==
    LET T == CeilDiv(L0, hparams.chr_maxpool_size)
    IN  /\ \A n \in 1..Len(layers) :
              HasShape(layers[n], Len(emb0), T, hparams.chr_kernel_features[n])
        /\ pc \in AfterConvEmb => /\ Len(emb) = Len(emb0)
                                  /\ \A b \in 1..Len(emb) : Len(emb[b]) = T
        /\ pc \in { "remask_out", "return", "done" } =>
              HasShape(emb, Len(emb0), T, hparams.hidden_size)

C5_Witness ==
    /\ pc = "done"
    /\ hparams.chr_maxpool_size > 1
    /\ L0 > hparams.chr_maxpool_size
    /\ L0 % hparams.chr_maxpool_size # 0
    /\ Len(emb[1]) * hparams.chr_maxpool_size > L0

\* C6: conv_emb returns a tensor whose channel count is the sum of the
\* configured feature counts; with one branch nothing is concatenated and
\* the result is that branch's pooled output.
C6_ChannelsAreSumOfFeatures ==
    pc = "mask_in" =>
        /\ \A b \in 1..Len(emb) : \A t \in 1..Len(emb[b]) :
              Len(emb[b][t]) = SumSeq(hparams.chr_kernel_features)
        /\ Len(hparams.chr_kernels) = 1 =>
              /\ emb = layers[1]
              /\ "concat" \notin Range(ops)
        /\ Len(hparams.chr_kernels) > 1 => "concat" \in Range(ops)

C6_Witness ==
    /\ pc = "mask_in"
    /\ Len(hparams.chr_kernels) = 3
    /\ Len(emb[1][1]) = 4

\* C7: with chr_dropout_rate = 0 and chr_pos_enc false, a second pass on
\* the same input, weights and hparams returns what the first returned.
C7_SecondPassAgrees ==
    (run = 2 /\ pc = "done" /\ hparams.chr_dropout_rate = 0 /\ ~hparams.chr_pos_enc)
        => emb = prev.emb

C7_Witness ==
    /\ run = 2
    /\ pc = "done"
    /\ hparams.chr_dropout_rate = 0
    /\ ~hparams.chr_pos_enc
    /\ \E o \in 1..Len(emb[1]) : ~IsPadding(emb, 1, o)

\* C8: the tensor passed to conv_emb is all-zero at every padding position
\* of the original input, with or without the positional signal and
\* whatever the rescale's weights and bias: the signal is added after the
\* rescale and before the mask, and the mask is that of the original input.
C8_ConvInputZeroAtPadding ==
    /\ pc = "conv_emb" =>
          /\ emb_mask = embedding_mask(emb0)
          /\ ops = (IF hparams.chr_pos_enc
                    THEN << "emb_mask", "rescaled_embedding", "timing_signal", "mul" >>
                    ELSE << "emb_mask", "rescaled_embedding", "mul" >>)
    /\ conv_inputs # Unset =>
          \A b \in 1..Len(emb0) : \A t \in 1..Len(emb0[b]) :
              IsPadding(emb0, b, t) => IsPadding(conv_inputs, b, t)

C8_Witness ==
    /\ pc = "branch"
    /\ hparams.chr_pos_enc
    /\ weights.b # 0
    /\ \E t \in 1..L0 : IsPadding(emb0, 1, t)
    /\ \E t \in 1..L0 : ~IsPadding(conv_inputs, 1, t)

\* C9: with num_highway_layers = 0 highway ends in an error and never
\* returns; with N >= 1 layers it returns what layer N produced, the first
\* layer having received highway's argument and each later layer what the
\* layer before it produced.
C9_HighwayChain ==
    /\ hparams.num_highway_layers = 0 => pc \notin AfterHighway
    /\ err = "UnboundLocalError" => hparams.num_highway_layers = 0
    /\ (pc = "layer" /\ idx = 0 /\ hparams.num_highway_layers = 0) => output = Unset
    /\ \A i \in 1..Len(hw_trace) :
          hw_trace[i].received =
              (IF i = 1 THEN (IF pc = "layer" THEN emb ELSE hw_trace[1].received)
               ELSE hw_trace[i - 1].produced)
    /\ pc = "remask_hw" =>
          /\ Len(hw_trace) = hparams.num_highway_layers
          /\ emb = hw_trace[Len(hw_trace)].produced

C9_Witness ==
    /\ err = "UnboundLocalError"
    /\ pc = "error"
    /\ hw_trace = << >>
    /\ run = 1

\* C10: the returned tensor does not depend on the second dropout: a second
\* pass whose first dropout drew what the first pass's drew returns what
\* the first pass returned, whatever the two second dropouts drew.
C10_SecondDropoutUnused ==
    (run = 2 /\ pc = "done" /\ drop1 = prev.drop1) => emb = prev.emb

\* the second dropout's two outcomes differ, and so do its result and emb
C10_Witness ==
    /\ run = 2
    /\ pc = "done"
    /\ hparams.chr_dropout_rate = 50
    /\ drop1 = prev.drop1
    /\ LET kept == MulMask(output, emb_mask_in)
       IN  /\ dropout(kept, 50, "even") # dropout(kept, 50, "odd")
           /\ encoder_input # kept
    /\ \E o \in 1..Len(emb[1]) : ~IsPadding(emb, 1, o)

====
